---- MODULE Spec2Model ----
(***************************************************************************)
(* Model of shared_scripts/openmeteo.py: the Location record, the colour   *)
(* cycler, the date formatter, the two OpenMeteo fetchers, the rolling     *)
(* averager, the plot composer and the top-level pipeline.                 *)
(*                                                                         *)
(* Python values are modelled as records carrying a "type" field, so that  *)
(* a returned table, a raised exception and None are distinguishable.      *)
(* Strings that are inspected (the error message) are sequences of         *)
(* tokens; dicts are functions whose DOMAIN is the set of keys present.    *)
(***************************************************************************)
EXTENDS Integers, Sequences, FiniteSets, TLC

VARIABLES
    color_order,   \* the module-level palette list (openmeteo.py:41)
    color_call,    \* arguments of the last get_color call
    color_out,     \* what that call returned or raised
    clock,         \* the instant "now", in hours since 2023-06-01T00:00 UTC
    host_tz,       \* UTC offset (hours) of the host's local clock
    location,      \* the Location argument of a fetcher call
    meteo,         \* what mgr.get_data() answers to the next request
    request,       \* the options of the last request issued
    fetch_out,     \* what the last fetcher call returned or raised
    series,        \* the pd.Series argument of get_24h_average
    average,       \* what get_24h_average returned
    locations,     \* the list of Location records (plot argument / pipeline list)
    fig,           \* the go.Figure built by plot
    plot_out,      \* how the last plot call ended
    pc,            \* position of the top-level script
    loc_i,         \* index of the location the pipeline loop is at
    df_hist,       \* the pipeline's local df_hist
    requests,      \* every request the pipeline issued, in order
    main_exc,      \* the exception that ended the script, if any
    heap,          \* Location objects by identity (object id -> fields)
    tables         \* number of DataFrame objects allocated so far

colorVars == <<color_order, color_call, color_out>>
fetchVars == <<clock, host_tz, location, meteo, request, fetch_out>>
rollVars  == <<series, average>>
plotVars  == <<locations, fig, plot_out>>
mainVars  == <<pc, loc_i, df_hist, requests, main_exc>>
heapVars  == <<heap, tables>>
vars == <<colorVars, fetchVars, rollVars, plotVars, mainVars, heapVars>>

----------------------------------------------------------------------------
(* Python values *)

None == [type |-> "None"]

Raise(exc, origin, msg) ==
    [type |-> "raise", exc |-> exc, origin |-> origin, msg |-> msg]

IsRaise(v) == v.type = "raise"

\* list[k] with Python's rules: 0-based, negative k counts from the end.
ListGet(list, k) ==
    IF k >= 0 /\ k < Len(list) THEN [type |-> "value", v |-> list[k + 1]]
    ELSE IF k < 0 /\ k >= -Len(list)
         THEN [type |-> "value", v |-> list[Len(list) + k + 1]]
    ELSE Raise("IndexError", "python", <<"list index out of range">>)

----------------------------------------------------------------------------
(* Colour cycler *)

PALETTE ==
    << <<31, 119, 180>>, <<255, 127, 14>>, <<44, 160, 44>>, <<214, 39, 40>>,
       <<148, 103, 189>>, <<140, 86, 75>>, <<227, 119, 194>>,
       <<127, 127, 127>>, <<188, 189, 34>>, <<23, 190, 207>> >>

\* 'rgba({}, {}, {}, {})'.format(*color, alpha); alpha in tenths.
FormatRgba(color, alpha) ==
    [type |-> "str", text |-> <<"rgba(", color[1], color[2], color[3], alpha, ")">>]

\* A variant that indexes the palette without reducing the index.
get_color_nowrap(idx, alpha) ==
    LET color == ListGet(color_order, idx)
    IN  IF IsRaise(color) THEN color ELSE FormatRgba(color.v, alpha)

get_color(idx, alpha) ==
    LET color == ListGet(color_order, idx % Len(color_order))
    IN  IF IsRaise(color) THEN color ELSE FormatRgba(color.v, alpha)

----------------------------------------------------------------------------
(* Location record *)

Zurich == [name |-> "Europe/Zurich", utcoffset |-> 2]   \* CEST in June 2023
UTC    == [name |-> "UTC", utcoffset |-> 0]

\* Location(name, latitude, longitude, timezone, data); coordinates in 1e-7 deg.
Location(name, latitude, longitude, timezone, data) ==
    [name |-> name, latitude |-> latitude, longitude |-> longitude,
     timezone |-> timezone, data |-> data]

\* Location.copy: a new record whose fields are the same objects.
copy(self) ==
    Location(self.name, self.latitude, self.longitude, self.timezone, self.data)

GENEVA == Location("Geneva", 462052193, 61471942, Zurich, None)
BERN   == Location("Bern", 469546812, 73125359, Zurich, None)

----------------------------------------------------------------------------
(* Dates *)

MonthLen == <<31, 28, 31, 30, 31, 30, 31, 31, 30, 31, 30, 31>>   \* 2023

\* Day 1 of the model's clock is 2023-06-01, the 152nd day of 2023.
RECURSIVE MonthDay(_, _)
MonthDay(month, dayOfYear) ==
    IF dayOfYear <= MonthLen[month] \/ month = 12
    THEN <<month, dayOfYear>>
    ELSE MonthDay(month + 1, dayOfYear - MonthLen[month])

\* A naive datetime (no tzinfo) from a count of hours since 2023-06-01T00:00.
NaiveDatetime(hours) ==
    LET md == MonthDay(1, 152 + (hours \div 24))
    IN  [year |-> 2023, month |-> md[1], day |-> md[2], hour |-> hours % 24]

\* datetime(2023, 6, 1)
StartDate == [year |-> 2023, month |-> 6, day |-> 1, hour |-> 0]

\* datetime.now(): the host's local wall clock, without tzinfo.
Now == NaiveDatetime(clock + host_tz)

\* The wall clock of zone tz at the same instant (what datetime.now(tz)
\* would give; the script never computes it).
NowIn(tz) == NaiveDatetime(clock + tz.utcoffset)

\* dt.strftime('%Y-%m-%d'): the time of day is dropped.
iso8601format(dt) == <<dt.year, "-", dt.month, "-", dt.day>>

----------------------------------------------------------------------------
(* Tables (pd.DataFrame) *)

\* A float cell: a value num/den, or NaN.
Num(v) == [nan |-> FALSE, num |-> v, den |-> 1]
NaN    == [nan |-> TRUE, num |-> 0, den |-> 1]

\* The order in which the provider lists the hourly keys.
HourlyKeyOrder == <<"time", "temperature_2m">>

Range(s) == {s[i] : i \in DOMAIN s}

\* pd.DataFrame(dict of lists): one column per key, a RangeIndex; lists of
\* different lengths are refused.
DataFrame(hourly) ==
    LET keys == DOMAIN hourly
        Present(k) == k \in keys
        lens == {Len(hourly[k]) : k \in keys}
        n    == IF keys = {} THEN 0 ELSE CHOOSE l \in lens : TRUE
    IN  IF Cardinality(lens) > 1
        THEN Raise("ValueError", "pandas",
                   <<"All arrays must be of the same length">>)
        ELSE [type |-> "DataFrame",
              index |-> [i \in 1..n |-> i - 1],
              columns |-> SelectSeq(HourlyKeyOrder, Present),
              col |-> [k \in keys |-> hourly[k]]]

\* A variant of set_index that keeps the key column (drop=False).
set_index_keep(df, key) ==
    IF key \notin Range(df.columns)
    THEN Raise("KeyError", "pandas", <<key>>)
    ELSE [df EXCEPT !.index = df.col[key]]

\* df.set_index(key, drop=True)
set_index(df, key) ==
    LET Other(c) == c # key
    IN  IF key \notin Range(df.columns)
        THEN Raise("KeyError", "pandas", <<key>>)
        ELSE [type |-> "DataFrame",
              index |-> df.col[key],
              columns |-> SelectSeq(df.columns, Other),
              col |-> [c \in (DOMAIN df.col) \ {key} |-> df.col[c]]]

\* df.rename(columns={old: new}); a name that is not a column is ignored.
rename(df, old, new) ==
    LET To(c)   == IF c = old THEN new ELSE c
        From(c) == IF c = new /\ old \in DOMAIN df.col THEN old ELSE c
    IN  [type |-> "DataFrame",
         index |-> df.index,
         columns |-> [i \in DOMAIN df.columns |-> To(df.columns[i])],
         col |-> [c \in {To(k) : k \in DOMAIN df.col} |-> df.col[From(c)]]]

----------------------------------------------------------------------------
(* Fetchers *)

MessagePrefix == <<"Failed to load meteo data. Reason: ">>

\* The one kind of error the fetchers raise themselves: a bare Exception.
DataSourceError == "Exception"

\* A variant of check_error whose message leaves the reason out.
check_error_noreason(data) ==
    IF "error" \notin DOMAIN data THEN None
    ELSE IF ~data["error"] THEN None
    ELSE IF "reason" \notin DOMAIN data THEN None
    ELSE Raise(DataSourceError, "check_error", MessagePrefix)

\* check_error: raises Exception(f"... Reason: {data['reason']:s}") when
\* data["error"] is true; a KeyError raised inside the try block, by
\* data["error"] or by data['reason'], is swallowed.
check_error(data) ==
    IF "error" \notin DOMAIN data THEN None                     \* KeyError: pass
    ELSE IF ~data["error"] THEN None
    ELSE IF "reason" \notin DOMAIN data THEN None               \* KeyError: pass
    ELSE IF data["reason"].type # "str"
         THEN Raise("ValueError", "python", <<"Unknown format code 's'">>)
    ELSE Raise(DataSourceError, "check_error",
               MessagePrefix \o data["reason"].text)

\* Lines 127-132 and 168-174: what a fetcher does with the answer of
\* mgr.get_data(), which either raised or returned a dict.
FetchTable(answer, column) ==
    IF IsRaise(answer) THEN answer
    ELSE LET err == check_error(answer.d)
         IN  IF IsRaise(err) THEN err
             ELSE IF "hourly" \notin DOMAIN answer.d
                  THEN Raise("KeyError", "python", <<"hourly">>)
             ELSE LET df0 == DataFrame(answer.d["hourly"])
                  IN  IF IsRaise(df0) THEN df0
                      ELSE LET df1 == set_index(df0, "time")
                           IN  IF IsRaise(df1) THEN df1
                               ELSE rename(df1, "temperature_2m", column)

\* ForecastOptions(...) handed to OWmanager(api=OWmanager.forecast).
ForecastRequest(loc) ==
    [type |-> "request", api |-> "forecast",
     latitude |-> loc.latitude, longitude |-> loc.longitude,
     timezone |-> loc.timezone, hourly |-> {"temperature_2m"},
     past_days |-> 30, forecast_days |-> 16]

\* HistoricalOptions(...) handed to OWmanager(api=OWmanager.historical).
HistoricalRequest(loc, start_date) ==
    [type |-> "request", api |-> "historical",
     latitude |-> loc.latitude, longitude |-> loc.longitude,
     timezone |-> loc.timezone, hourly |-> {"temperature_2m"},
     start_date |-> iso8601format(start_date),
     end_date |-> iso8601format(Now)]

get_forecast(loc, answer) == FetchTable(answer, "forecast")

get_historical(loc, start_date, answer) == FetchTable(answer, "historical")

----------------------------------------------------------------------------
(* Merging and column access *)

HasDuplicates(s) == \E i, j \in DOMAIN s : i # j /\ s[i] = s[j]

\* Position of value t in sequence s (s holds t exactly once).
IndexOf(s, t) == CHOOSE i \in DOMAIN s : s[i] = t

\* pd.concat([a, b], axis=1): an outer join of the two tables on their index;
\* rows a table lacks are filled with NaN.
pd_concat(a, b) ==
    IF a.index = b.index
    THEN [type |-> "DataFrame", index |-> a.index,
          columns |-> a.columns \o b.columns,
          col |-> [c \in (DOMAIN a.col) \cup (DOMAIN b.col) |->
                     IF c \in DOMAIN a.col THEN a.col[c] ELSE b.col[c]]]
    ELSE IF HasDuplicates(a.index) \/ HasDuplicates(b.index)
    THEN Raise("InvalidIndexError", "pandas",
               <<"Reindexing only valid with uniquely valued Index objects">>)
    ELSE LET New(t)  == t \notin Range(a.index)
             index   == a.index \o SelectSeq(b.index, New)
             Cells(df, c) ==
                 [i \in DOMAIN index |->
                    IF index[i] \in Range(df.index)
                    THEN df.col[c][IndexOf(df.index, index[i])]
                    ELSE NaN]
         IN  [type |-> "DataFrame", index |-> index,
              columns |-> a.columns \o b.columns,
              col |-> [c \in (DOMAIN a.col) \cup (DOMAIN b.col) |->
                         IF c \in DOMAIN a.col THEN Cells(a, c) ELSE Cells(b, c)]]

\* df.<column>: the column as a Series; df may be None or lack the column.
Attr(df, column) ==
    IF df.type # "DataFrame"
    THEN Raise("AttributeError", "python", <<"NoneType", column>>)
    ELSE IF column \notin DOMAIN df.col
    THEN Raise("AttributeError", "pandas", <<"DataFrame", column>>)
    ELSE [type |-> "Series", index |-> df.index, values |-> df.col[column]]

----------------------------------------------------------------------------
(* Rolling averager *)

window24 == 24

RECURSIVE SumCells(_, _, _)
\* Sum of the cells of s at positions lo..hi that are not NaN.
SumCells(s, lo, hi) ==
    IF lo > hi THEN 0
    ELSE (IF s[hi].nan THEN 0 ELSE s[hi].num) + SumCells(s, lo, hi - 1)

\* series.rolling(window, min_periods).mean(): at each position, the mean of
\* the observations among the last `window` cells, provided there are at
\* least min_periods of them; NaN otherwise.
rolling_mean(s, window, min_periods) ==
    [type |-> "Series", index |-> s.index,
     values |-> [k \in DOMAIN s.values |->
        LET lo   == IF k - window + 1 > 1 THEN k - window + 1 ELSE 1
            nobs == Cardinality({i \in lo..k : ~s.values[i].nan})
        IN  IF nobs >= min_periods
            THEN [nan |-> FALSE, num |-> SumCells(s.values, lo, k), den |-> nobs]
            ELSE NaN]]

\* A variant that averages whatever the window holds (min_periods=1).
get_24h_average_partial(s) == rolling_mean(s, window24, 1)

\* series.rolling(24).mean(); min_periods defaults to the window size.
get_24h_average(s) == rolling_mean(s, window24, window24)

----------------------------------------------------------------------------
(* Plot composer *)

\* go.Figure(): traces live in fig.data, lines added by add_hline/add_vline
\* are layout shapes.
Figure ==
    [type |-> "Figure", data |-> <<>>, shapes |-> <<>>,
     layout |-> [title |-> "", xaxis_title |-> "", yaxis_title |-> ""],
     minor |-> [set |-> FALSE, tick0 |-> 0],
     shown |-> FALSE]

add_hline(f, y, line_color) ==
    [f EXCEPT !.shapes = Append(@, [type |-> "hline", y |-> y,
                                     line_dash |-> "dash", line_color |-> line_color])]

add_vline(f, x, line_color) ==
    [f EXCEPT !.shapes = Append(@, [type |-> "vline", x |-> x,
                                     line_dash |-> "dash", line_color |-> line_color])]

add_trace(f, trace) == [f EXCEPT !.data = Append(@, trace)]

Scatter(x, y, name, legendgroup, dash, color) ==
    [type |-> "scatter", x |-> x, y |-> y, name |-> name,
     legendgroup |-> legendgroup, mode |-> "lines",
     line |-> [dash |-> dash, color |-> color]]

update_layout(f) ==
    [f EXCEPT !.layout = [title |-> "Temperature OpenMeteo",
                          xaxis_title |-> "Date",
                          yaxis_title |-> "Temperature [C]"]]

update_xaxes(f, tick0) == [f EXCEPT !.minor = [set |-> TRUE, tick0 |-> tick0]]

show(f) == [f EXCEPT !.shown = TRUE]

\* The local variable df before the loop has bound it.
Unbound == [type |-> "unbound"]

\* A variant of the loop body that leaves the historical average out.
PlotLocation_short(f, idx, loc) ==
    LET df == loc.data
        forecast == Attr(df, "forecast")
    IN  IF IsRaise(forecast) THEN [fig |-> f, df |-> df, exc |-> forecast]
        ELSE LET forecast_24 == get_24h_average(forecast)
                 f1 == add_trace(f, Scatter(df.index, forecast.values, "forecast",
                                            loc.name, "solid", get_color(idx, 2)))
                 f2 == add_trace(f1, Scatter(forecast_24.index, forecast_24.values,
                                             "forecast av24h", loc.name, "dash",
                                             get_color(idx, 10)))
                 historical == Attr(df, "historical")
             IN  IF IsRaise(historical)
                 THEN [fig |-> f2, df |-> df, exc |-> historical]
                 ELSE [fig |-> add_trace(f2, Scatter(df.index, historical.values,
                                  "historical", loc.name, "solid", get_color(idx, 4))),
                       df |-> df, exc |-> None]

\* Lines 204-240: one pass of the loop body, for the location at position idx
\* (0-based); alpha is in tenths.
PlotLocation(f, idx, loc) ==
    LET df == loc.data
        forecast == Attr(df, "forecast")
    IN  IF IsRaise(forecast) THEN [fig |-> f, df |-> df, exc |-> forecast]
        ELSE LET forecast_24 == get_24h_average(forecast)
                 f1 == add_trace(f, Scatter(df.index, forecast.values, "forecast",
                                            loc.name, "solid", get_color(idx, 2)))
                 f2 == add_trace(f1, Scatter(forecast_24.index, forecast_24.values,
                                             "forecast av24h", loc.name, "dash",
                                             get_color(idx, 10)))
                 historical == Attr(df, "historical")
             IN  IF IsRaise(historical)
                 THEN [fig |-> f2, df |-> df, exc |-> historical]
                 ELSE LET historical_24 == get_24h_average(historical)
                          f3 == add_trace(f2, Scatter(df.index, historical.values,
                                    "historical", loc.name, "solid", get_color(idx, 4)))
                          f4 == add_trace(f3, Scatter(historical_24.index,
                                    historical_24.values, "historical av24h",
                                    loc.name, "solid", get_color(idx, 10)))
                      IN  [fig |-> f4, df |-> df, exc |-> None]

RECURSIVE PlotLoop(_, _, _)
\* for idx, location in enumerate(locations): ...
PlotLoop(locs, idx, st) ==
    IF idx >= Len(locs) \/ IsRaise(st.exc) THEN st
    ELSE PlotLoop(locs, idx + 1, PlotLocation(st.fig, idx, locs[idx + 1]))

\* A variant in which a df that was never bound yields a default tick.
Tick0_default(df) ==
    IF df.type = "unbound" THEN [type |-> "value", v |-> 0]
    ELSE LET historical == Attr(df, "historical")
         IN  IF IsRaise(historical) THEN historical
             ELSE IF Len(historical.index) = 0
                  THEN Raise("IndexError", "pandas", <<"index 0 is out of bounds">>)
                  ELSE [type |-> "value", v |-> historical.index[1]]

\* Line 247: the argument df.historical.index[0], evaluated in plot itself
\* before update_xaxes is called; df is whatever the loop bound last.
Tick0(df) ==
    IF df.type = "unbound"
    THEN Raise("UnboundLocalError", "python", <<"df">>)
    ELSE LET historical == Attr(df, "historical")
         IN  IF IsRaise(historical) THEN historical
             ELSE IF Len(historical.index) = 0
                  THEN Raise("IndexError", "pandas", <<"index 0 is out of bounds">>)
                  ELSE [type |-> "value", v |-> historical.index[1]]

Returned == [type |-> "returned"]

\* plot(locations): the figure it built and how the call ended.
plot(locs) ==
    LET f3 == add_vline(add_hline(add_hline(Figure, 25, "red"), 27, "purple"),
                        iso8601format(Now), "black")
        st == PlotLoop(locs, 0, [fig |-> f3, df |-> Unbound, exc |-> None])
    IN  IF IsRaise(st.exc) THEN [fig |-> st.fig, out |-> st.exc]
        ELSE LET f5    == update_layout(st.fig)
                 tick0 == Tick0(st.df)
             IN  IF IsRaise(tick0) THEN [fig |-> f5, out |-> tick0]
                 ELSE [fig |-> show(update_xaxes(f5, tick0.v)), out |-> Returned]

----------------------------------------------------------------------------
(* Bounds and the inputs drawn within them *)

MaxIdx       == 25   \* get_color is called with idx in -MaxIdx..MaxIdx
MaxRows      == 2    \* longest "time" / "temperature_2m" list of an answer
MaxReasonLen == 2    \* longest reason string, in tokens
MaxSeriesLen == 26   \* longest series handed to get_24h_average
MaxCoef      == 2    \* coefficients of the series' values
MaxLocations == 2    \* longest list of locations
MaxClock     == 47   \* latest instant, in hours since 2023-06-01T00:00 UTC
MaxObjects   == 5    \* Location objects alive, the two prototypes included
MaxTables    == 2    \* DataFrame objects the pipeline allocates

Seqs(S, n) == UNION {[1..k -> S] : k \in 0..n}

Alphas == {2, 4, 10}                      \* 0.2, 0.4 and the default 1.

Reasons ==
    {[type |-> "str", text |-> t] : t \in Seqs({"bad", "coordinates"}, MaxReasonLen)}
    \cup {[type |-> "int", text |-> <<"404">>]}

TimeLists == Seqs({0, 1}, MaxRows)
TempLists == Seqs({Num(20), Num(27)}, MaxRows)

EmptyDict == [k \in {} |-> TRUE]

Put(d, key, v) == [k \in (DOMAIN d) \cup {key} |-> IF k = key THEN v ELSE d[k]]

\* The dicts of D, and each of them with `key` set to a value of V.
WithKey(D, key, V) == D \cup {Put(d, key, v) : d \in D, v \in V}

Hourlies == WithKey(WithKey({EmptyDict}, "time", TimeLists),
                    "temperature_2m", TempLists)

Bodies == WithKey(WithKey(WithKey({EmptyDict}, "error", BOOLEAN),
                          "reason", Reasons),
                  "hourly", Hourlies)

ConnectionError == Raise("ConnectionError", "requests", <<"no answer">>)

\* Everything mgr.get_data() may do: raise, or return a dict.
Answers == {[type |-> "dict", d |-> b] : b \in Bodies} \cup {ConnectionError}

\* The answers the pipeline is run against: hourly data for the hours
\* 0..n-1, with or without an error flag and a reason.
Hours(n) == [i \in 1..n |-> i - 1]
Temps(n) == [i \in 1..n |-> Num(20)]

PipelineAnswers ==
    {a \in Answers :
        \/ IsRaise(a)
        \/ /\ "reason" \in DOMAIN a.d => a.d["reason"].text = <<"bad", "coordinates">>
           /\ "hourly" \in DOMAIN a.d =>
                 \E n \in 0..MaxRows :
                     a.d["hourly"] = [time |-> Hours(n), temperature_2m |-> Temps(n)]}

Greenwich == Location("Greenwich", 514779000, 0, UTC, None)

\* Series of n hourly values a*k*k + b*k (mod 7) above 18 degrees, with the
\* value at position p (if p > 0) missing.
SeriesOf(n, a, b, p) ==
    [type |-> "Series",
     index |-> Hours(n),
     values |-> [k \in 1..n |-> IF k = p THEN NaN
                                ELSE Num(18 + ((a * k * k + b * k) % 7))]]

RollInputs ==
    {SeriesOf(n, a, b, p) : n \in 0..MaxSeriesLen, a \in 0..MaxCoef,
                            b \in 0..MaxCoef, p \in 0..MaxSeriesLen}

\* The tables the pipeline can attach to a location: a historical and a
\* forecast table, each as its fetcher returns it, merged.
HistoricalTables ==
    {t \in {get_historical(GENEVA, StartDate, a) : a \in PipelineAnswers} :
        t.type = "DataFrame"}

ForecastTables ==
    {t \in {get_forecast(GENEVA, a) : a \in PipelineAnswers} : t.type = "DataFrame"}

MergedTables == {pd_concat(h, f) : h \in HistoricalTables, f \in ForecastTables}

\* What location.data may hold when plot is called: a merged table, a
\* table that was never merged, or nothing.
PlotData == MergedTables \cup ForecastTables \cup {None}

Prototype(i) == IF i % 2 = 1 THEN GENEVA ELSE BERN

PlotInputs ==
    UNION {{[i \in 1..n |-> [copy(Prototype(i)) EXCEPT !.data = d[i]]] :
                d \in [1..n -> PlotData]} : n \in 0..MaxLocations}

PipelineLists ==
    UNION {{[i \in 1..n |-> copy(c[i])] : c \in [1..n -> {GENEVA, BERN}]} :
                n \in 1..MaxLocations}

----------------------------------------------------------------------------
(* Initial states: each component at rest *)

NotCalled == [called |-> FALSE, idx |-> 0, alpha |-> 10]
Pending   == [type |-> "pending"]

ColorRest == /\ color_order = PALETTE
             /\ color_call = NotCalled
             /\ color_out = None

ClockRest == clock = 12 /\ host_tz = 2

FetchRest == /\ location = copy(GENEVA)
             /\ meteo = ConnectionError
             /\ request = None
             /\ fetch_out = None

RollRest == /\ series = SeriesOf(0, 0, 0, 0)
            /\ average = None

PlotRest == /\ locations = <<>>
            /\ fig = None
            /\ plot_out = Pending

MainRest == /\ loc_i = 1
            /\ df_hist = None
            /\ requests = <<>>
            /\ main_exc = None

HeapRest == /\ heap = <<GENEVA, BERN>>
            /\ tables = 0

InitColor == /\ pc = "color"
             /\ ColorRest /\ ClockRest /\ FetchRest /\ RollRest
             /\ PlotRest /\ MainRest /\ HeapRest

InitFetch == /\ pc = "api"
             /\ location \in {copy(GENEVA)}
             /\ meteo \in Answers
             /\ request = None
             /\ fetch_out = None
             /\ ColorRest /\ ClockRest /\ RollRest /\ PlotRest /\ MainRest /\ HeapRest

InitDate == /\ pc = "api"
            /\ clock \in 0..MaxClock
            /\ host_tz \in {-7, 0, 2}
            /\ location \in {copy(GENEVA), copy(BERN), copy(Greenwich)}
            /\ meteo \in PipelineAnswers
            /\ request = None
            /\ fetch_out = None
            /\ ColorRest /\ RollRest /\ PlotRest /\ MainRest /\ HeapRest

InitRoll == /\ pc = "roll"
            /\ series \in RollInputs
            /\ average = None
            /\ ColorRest /\ ClockRest /\ FetchRest /\ PlotRest /\ MainRest /\ HeapRest

InitPlot == /\ pc = "plot"
            /\ locations \in PlotInputs
            /\ fig = None
            /\ plot_out = Pending
            /\ ColorRest /\ ClockRest /\ FetchRest /\ RollRest /\ MainRest /\ HeapRest

\* The script: start_date = datetime(2023, 6, 1); locations = [GENEVA.copy()]
\* (or any list of copies of the prototypes).
Init == /\ pc = "hist"
        /\ locations \in PipelineLists
        /\ fig = None
        /\ plot_out = Pending
        /\ clock \in {0, MaxClock}
        /\ host_tz \in {0, 2}
        /\ ColorRest /\ FetchRest /\ RollRest /\ MainRest /\ HeapRest

InitHeap == /\ pc = "heap"
            /\ ColorRest /\ ClockRest /\ FetchRest /\ RollRest
            /\ PlotRest /\ MainRest /\ HeapRest

----------------------------------------------------------------------------
(* Operations *)

\* get_color(idx, alpha) called from outside.
GetColor ==
    /\ pc = "color"
    /\ \E idx \in -MaxIdx..MaxIdx, alpha \in Alphas :
          /\ color_call' = [called |-> TRUE, idx |-> idx, alpha |-> alpha]
          /\ color_out' = get_color(idx, alpha)
    /\ UNCHANGED <<color_order, fetchVars, rollVars, plotVars, mainVars,
                   heapVars>>

\* get_forecast(location): one request, answered by meteo.
GetForecast ==
    /\ pc = "api"
    /\ request = None
    /\ request' = ForecastRequest(location)
    /\ fetch_out' = get_forecast(location, meteo)
    /\ UNCHANGED <<colorVars, clock, host_tz, location, meteo, rollVars,
                   plotVars, mainVars, heapVars>>

\* get_historical(location, start_date): one request, answered by meteo.
GetHistorical ==
    /\ pc = "api"
    /\ request = None
    /\ request' = HistoricalRequest(location, StartDate)
    /\ fetch_out' = get_historical(location, StartDate, meteo)
    /\ UNCHANGED <<colorVars, clock, host_tz, location, meteo, rollVars,
                   plotVars, mainVars, heapVars>>

\* get_24h_average(series)
Get24hAverage ==
    /\ pc = "roll"
    /\ average = None
    /\ average' = get_24h_average(series)
    /\ UNCHANGED <<colorVars, fetchVars, series, plotVars, mainVars, heapVars>>

\* An exception nothing catches, with the place the script was at.
Uncaught(e, stage, i, nreq) ==
    [type |-> "uncaught", exc |-> e, stage |-> stage, loc |-> i, nreq |-> nreq]

\* plot(locations), called directly or as the script's last statement.
Plot ==
    /\ pc = "plot"
    /\ LET r == plot(locations)
       IN  /\ fig' = r.fig
           /\ plot_out' = r.out
           /\ pc' = IF IsRaise(r.out) THEN "failed" ELSE "done"
           /\ main_exc' = IF IsRaise(r.out)
                          THEN Uncaught(r.out, "plot", loc_i, Len(requests))
                          ELSE main_exc
    /\ UNCHANGED <<colorVars, fetchVars, rollVars, locations, loc_i, df_hist,
                   requests, heapVars>>

\* A variant in which the loop goes on after a fetcher raised.
AfterFetch_goon(out, okpc) == okpc

\* The loop body has no try/except: an exception raised by a fetcher leaves
\* the loop and ends the script; otherwise the script goes on at okpc.
AfterFetch(out, okpc) == IF IsRaise(out) THEN "failed" ELSE okpc

\* df_hist = get_historical(location, start_date)
MainHistorical ==
    /\ pc = "hist"
    /\ \E a \in PipelineAnswers :
          LET loc == locations[loc_i]
              out == get_historical(loc, StartDate, a)
          IN  /\ requests' = Append(requests,
                                 [loc |-> loc_i,
                                  options |-> HistoricalRequest(loc, StartDate)])
              /\ pc' = AfterFetch(out, "forecast")
              /\ IF IsRaise(out)
                 THEN /\ main_exc' = Uncaught(out, "get_historical", loc_i,
                                              Len(requests) + 1)
                      /\ UNCHANGED df_hist
                 ELSE /\ df_hist' = out
                      /\ UNCHANGED main_exc
    /\ UNCHANGED <<colorVars, clock, host_tz, location, meteo, request, fetch_out,
                   rollVars, plotVars, loc_i, heapVars>>

\* df_forecast = get_forecast(location);
\* location.data = pd.concat([df_hist, df_forecast], axis=1); next location.
MainForecast ==
    /\ pc = "forecast"
    /\ \E a \in PipelineAnswers :
          LET loc  == locations[loc_i]
              out  == get_forecast(loc, a)
              next == IF loc_i = Len(locations) THEN "plot" ELSE "hist"
          IN  /\ requests' = Append(requests,
                                 [loc |-> loc_i, options |-> ForecastRequest(loc)])
              /\ IF IsRaise(out)
                 THEN /\ pc' = AfterFetch(out, next)
                      /\ main_exc' = Uncaught(out, "get_forecast", loc_i,
                                              Len(requests) + 1)
                      /\ UNCHANGED <<locations, loc_i>>
                 ELSE LET merged == pd_concat(df_hist, out)
                      IN  IF IsRaise(merged)
                          THEN /\ pc' = "failed"
                               /\ main_exc' = Uncaught(merged, "concat", loc_i,
                                                       Len(requests) + 1)
                               /\ UNCHANGED <<locations, loc_i>>
                          ELSE /\ pc' = AfterFetch(out, next)
                               /\ locations' = [locations EXCEPT
                                                  ![loc_i].data = merged]
                               /\ loc_i' = loc_i + 1
                               /\ UNCHANGED main_exc
    /\ UNCHANGED <<colorVars, clock, host_tz, location, meteo, request, fetch_out,
                   rollVars, fig, plot_out, df_hist, heapVars>>

\* A reference to the n-th DataFrame object.
Ref(n) == [type |-> "ref", id |-> n]

\* other = heap[r].copy(): a new Location object.
CopyLocation ==
    /\ pc = "heap"
    /\ Len(heap) < MaxObjects
    /\ \E r \in DOMAIN heap : heap' = Append(heap, copy(heap[r]))
    /\ UNCHANGED <<colorVars, fetchVars, rollVars, plotVars, mainVars, pc, tables>>

\* location.data = pd.concat(...): a copy's data field is bound to a new table.
AssignData ==
    /\ pc = "heap"
    /\ tables < MaxTables
    /\ \E r \in DOMAIN heap :
          /\ r > 2
          /\ heap' = [heap EXCEPT ![r].data = Ref(tables + 1)]
    /\ tables' = tables + 1
    /\ UNCHANGED <<colorVars, fetchVars, rollVars, plotVars, mainVars, pc>>

----------------------------------------------------------------------------
(* Specifications *)

NextColor == GetColor
NextFetch == GetForecast \/ GetHistorical
NextRoll  == Get24hAverage
NextPlot  == Plot
NextHeap  == CopyLocation \/ AssignData
Next      == MainHistorical \/ MainForecast \/ Plot

SpecColor == InitColor /\ [][NextColor]_vars
SpecFetch == InitFetch /\ [][NextFetch]_vars
SpecDate  == InitDate /\ [][NextFetch]_vars
SpecRoll  == InitRoll /\ [][NextRoll]_vars
SpecPlot  == InitPlot /\ [][NextPlot]_vars
SpecHeap  == InitHeap /\ [][NextHeap]_vars
Spec      == Init /\ [][Next]_vars

----------------------------------------------------------------------------
(* Properties *)

\* r occurs in msg as a contiguous run of tokens.
Contains(msg, r) ==
    \E i \in 1..(Len(msg) - Len(r) + 1) : SubSeq(msg, i, i + Len(r) - 1) = r

Called == request # None

ErrorFlagged ==
    /\ meteo.type = "dict"
    /\ "error" \in DOMAIN meteo.d
    /\ meteo.d["error"]

\* C1: when the answer carries a true error flag and a reason string r, the
\* fetcher that was called (get_forecast or get_historical) raises the
\* fetchers' error with a message that contains r, and returns no table.
ErrorWithReasonRaises ==
    (/\ Called
     /\ ErrorFlagged
     /\ "reason" \in DOMAIN meteo.d
     /\ meteo.d["reason"].type = "str")
    => /\ IsRaise(fetch_out)
       /\ fetch_out.exc = DataSourceError
       /\ Contains(fetch_out.msg, meteo.d["reason"].text)

\* C1 witness: get_historical answered {"error": true, "reason": "bad
\* coordinates", "hourly": ...} has raised.
ErrorWithReasonSeen ==
    /\ Called
    /\ request.api = "historical"
    /\ ErrorFlagged
    /\ "reason" \in DOMAIN meteo.d
    /\ meteo.d["reason"] = [type |-> "str", text |-> <<"bad", "coordinates">>]
    /\ "hourly" \in DOMAIN meteo.d
    /\ IsRaise(fetch_out)

\* C2: whenever the answer carries a true error flag, the fetcher call
\* fails and returns no table, whatever else the answer holds or lacks.
ErrorFlagAlwaysFails ==
    (Called /\ ErrorFlagged) => IsRaise(fetch_out)

ColumnOf(api) == IF api = "forecast" THEN "forecast" ELSE "historical"

CleanAnswer ==
    /\ meteo.type = "dict"
    /\ ("error" \notin DOMAIN meteo.d \/ ~meteo.d["error"])
    /\ "hourly" \in DOMAIN meteo.d
    /\ DOMAIN meteo.d["hourly"] = {"time", "temperature_2m"}
    /\ Len(meteo.d["hourly"]["time"]) = Len(meteo.d["hourly"]["temperature_2m"])

\* C3: for an answer without a (true) error flag whose hourly mapping holds a
\* time list and a temperature_2m list of the same length n, the fetcher
\* returns a table of n rows indexed by the time values in order, with
\* exactly one column, named "forecast" by get_forecast and "historical" by
\* get_historical, holding the temperatures in order.
CleanAnswerGivesTable ==
    (Called /\ CleanAnswer)
    => LET hourly == meteo.d["hourly"]
           column == ColumnOf(request.api)
       IN  /\ fetch_out.type = "DataFrame"
           /\ fetch_out.index = hourly["time"]
           /\ Len(fetch_out.index) = Len(hourly["temperature_2m"])
           /\ fetch_out.columns = <<column>>
           /\ DOMAIN fetch_out.col = {column}
           /\ fetch_out.col[column] = hourly["temperature_2m"]

\* C3 witness: get_forecast answered {"hourly": {"time": [t],
\* "temperature_2m": [20.0]}} has returned its one-row table.
CleanAnswerSeen ==
    /\ Called
    /\ request.api = "forecast"
    /\ meteo.type = "dict"
    /\ DOMAIN meteo.d = {"hourly"}
    /\ meteo.d["hourly"] = [time |-> <<1>>, temperature_2m |-> <<Num(20)>>]
    /\ fetch_out.type = "DataFrame"
    /\ fetch_out.index = <<1>>
    /\ fetch_out.col["forecast"] = <<Num(20)>>

MergedInput ==
    \A i \in DOMAIN locations :
        /\ locations[i].data.type = "DataFrame"
        /\ {"forecast", "historical"} \subseteq DOMAIN locations[i].data.col

PlotEnded == plot_out # Pending

\* C4 as stated: a chart produced from n locations carrying merged tables
\* has a total trace count of 4*n + 3.
TraceCountIncludesLines ==
    (plot_out = Returned /\ MergedInput)
    => Len(fig.data) = 4 * Len(locations) + 3

\* C4 amended: plot called with n >= 1 locations carrying merged tables, the
\* last of them with at least one row, displays a chart with exactly 4
\* traces per location (4*n traces, grouped by location, in the order
\* forecast, forecast av24h, historical, historical av24h) and, apart from
\* the traces, 3 line shapes: horizontal at 25 and at 27 and vertical at the
\* current date; 4*n + 3 chart elements in all.
TracesPerLocationPlusShapes ==
    (/\ PlotEnded
     /\ Len(locations) >= 1
     /\ MergedInput
     /\ Len(locations[Len(locations)].data.index) >= 1)
    => /\ plot_out = Returned
       /\ fig.shown
       /\ Len(fig.data) = 4 * Len(locations)
       /\ \A i \in DOMAIN locations :
             /\ \A j \in 1..4 :
                   fig.data[4 * (i - 1) + j].legendgroup = locations[i].name
             /\ fig.data[4 * (i - 1) + 1].name = "forecast"
             /\ fig.data[4 * (i - 1) + 2].name = "forecast av24h"
             /\ fig.data[4 * (i - 1) + 3].name = "historical"
             /\ fig.data[4 * (i - 1) + 4].name = "historical av24h"
       /\ Len(fig.shapes) = 3
       /\ fig.shapes[1].type = "hline" /\ fig.shapes[1].y = 25
       /\ fig.shapes[2].type = "hline" /\ fig.shapes[2].y = 27
       /\ fig.shapes[3].type = "vline"
       /\ fig.shapes[3].x = iso8601format(Now)
       /\ Len(fig.data) + Len(fig.shapes) = 4 * Len(locations) + 3

\* C4 witness: a chart of two locations with merged tables was displayed.
TwoLocationsPlotted ==
    /\ Len(locations) = 2
    /\ MergedInput
    /\ plot_out = Returned
    /\ fig.shown
    /\ Len(fig.data) = 8

\* C10 as stated: plot called with an empty list fails with an error raised
\* by the plotting library, and the chart is never displayed.
EmptyListFailsInPlotting ==
    (PlotEnded /\ Len(locations) = 0)
    => /\ IsRaise(plot_out)
       /\ plot_out.origin = "plotly"
       /\ ~fig.shown

\* C10 amended: plot called with an empty list fails with an
\* UnboundLocalError raised in plot itself, where it reads the loop variable
\* df that was never bound, before update_xaxes is called; the error
\* propagates unchanged and the chart is never displayed.
EmptyListFailsUnbound ==
    (PlotEnded /\ Len(locations) = 0)
    => /\ IsRaise(plot_out)
       /\ plot_out.exc = "UnboundLocalError"
       /\ plot_out.origin = "python"
       /\ ~fig.minor.set
       /\ ~fig.shown
       /\ pc = "failed"
       /\ main_exc.type = "uncaught" /\ main_exc.exc = plot_out

\* C10 witness: plot([]) has ended.
EmptyListPlotEnded ==
    /\ PlotEnded
    /\ Len(locations) = 0
    /\ IsRaise(plot_out)
    /\ Len(fig.shapes) = 3

FetchFailed ==
    /\ main_exc.type = "uncaught"
    /\ main_exc.stage \in {"get_historical", "get_forecast"}

\* C5: once a fetch has failed for location i, the script is in its failed
\* state: the failing request is the last one issued, no request was issued
\* for a later location, location i and the later ones carry no data, and
\* plot was not called.
FetchFailureAborts ==
    FetchFailed
    => /\ pc = "failed"
       /\ Len(requests) = main_exc.nreq
       /\ \A k \in DOMAIN requests : requests[k].loc <= main_exc.loc
       /\ requests[Len(requests)].loc = main_exc.loc
       /\ \A j \in main_exc.loc..Len(locations) : locations[j].data = None
       /\ plot_out = Pending
       /\ fig = None

\* C5 witness: the forecast fetch failed for the first of two locations.
FirstOfTwoFailed ==
    /\ FetchFailed
    /\ main_exc.stage = "get_forecast"
    /\ main_exc.loc = 1
    /\ Len(locations) = 2
    /\ Len(requests) = 2
    /\ pc = "failed"

\* The mean of the 24 cells s[k-23..k], as a cell: absent if one of them is.
IsMean24(cell, s, k) ==
    IF \E i \in (k - 23)..k : s[i].nan
    THEN cell.nan
    ELSE /\ ~cell.nan
         /\ cell.num * 24 = cell.den * SumCells(s, k - 23, k)

\* C6: get_24h_average returns a series as long as its input, absent at the
\* positions k < 23 (counted from 0) and, from position 23 on, equal to the
\* mean of the sample and the 23 before it; the input is one of the series
\* handed in, as it was.
RollingMeanOf24 ==
    (average # None)
    => /\ average.type = "Series"
       /\ Len(average.values) = Len(series.values)
       /\ average.index = series.index
       /\ \A k \in DOMAIN series.values :
             /\ k - 1 < 23 => average.values[k].nan
             /\ k - 1 >= 23 => IsMean24(average.values[k], series.values, k)
       /\ series \in RollInputs

\* C6 witness: a series of 26 samples whose first one is missing was
\* averaged: position 23 is absent, position 24 is a mean.
RollingMeanSeen ==
    /\ average # None
    /\ Len(series.values) = 26
    /\ series.values[1].nan
    /\ average.values[24].nan
    /\ ~average.values[25].nan
    /\ average.values[25].den = 24

\* C7: get_color(i, alpha) is get_color(i mod 10, alpha) for every integer i,
\* it never fails, and the palette is what it was.
ColorWrapsAround ==
    color_call.called
    => /\ color_out = get_color(color_call.idx % 10, color_call.alpha)
       /\ ~IsRaise(color_out)
       /\ color_order = PALETTE

\* C7 witness: get_color(13, 0.4) returned the fourth palette entry.
ColorWrapSeen ==
    /\ color_call.called
    /\ color_call.idx = 13
    /\ color_call.alpha = 4
    /\ color_out = FormatRgba(<<214, 39, 40>>, 4)

\* C8: the prototypes are untouched by what is done to the copies, and no
\* two Location records reach the same data table.
NoSharedTable ==
    /\ heap[1] = GENEVA
    /\ heap[2] = BERN
    /\ \A i, j \in DOMAIN heap :
          (i # j /\ heap[i].data.type = "ref") => heap[i].data # heap[j].data

\* C9: the end_date get_historical sends is the calendar date of the
\* current instant in the location's timezone.
EndDateInLocationZone ==
    (Called /\ request.api = "historical")
    => request.end_date = iso8601format(NowIn(location.timezone))
====
